---- MODULE Spec2Model ----
(***************************************************************************)
(* Model of pymeasure/instruments/thorlabs/thorlabspm100usb.py: the        *)
(* ThorlabsPM100USB driver, its capability flags, its accessors, the       *)
(* zero-adjustment poll loop and the DC_sensor setting objects.            *)
(*                                                                         *)
(* Text on the wire (replies) is a sequence of one-character strings, so   *)
(* that str.split, int() and '{0:09b}'.format are computed as the code     *)
(* computes them.  Commands are TLA+ strings.                              *)
(***************************************************************************)
EXTENDS Integers, Sequences, FiniteSets, TLC

\* ------------------------------------------------------------------ bounds
MaxFlag == 512
MaxVal == 1
MaxMsgLen == 2
MaxTime == 2
MaxTimeout == 1
MaxLog == 5

\* '{0:09b}': the flag word is formatted to at least nine binary digits
FlagBits == 9

Scalars == 0..MaxVal

\* ------------------------------------------------------- text conversions
DigitChars == <<"0", "1", "2", "3", "4", "5", "6", "7", "8", "9">>

DigitChar(d) == DigitChars[d + 1]

IsDigit(c) == \E d \in 0..9 : DigitChar(d) = c

DigitVal(c) == CHOOSE d \in 0..9 : DigitChar(d) = c

\* "%d" % n for n >= 0, as characters
RECURSIVE DecStr(_)
DecStr(n) == IF n < 10 THEN <<DigitChar(n)>>
             ELSE DecStr(n \div 10) \o <<DigitChar(n % 10)>>

\* int(s) accepts a non-empty string of decimal digits
IsIntText(s) == Len(s) > 0 /\ \A i \in 1..Len(s) : IsDigit(s[i])

RECURSIVE ParseInt(_)
ParseInt(s) == IF Len(s) = 0 THEN 0
               ELSE 10 * ParseInt(SubSeq(s, 1, Len(s) - 1)) + DigitVal(s[Len(s)])

\* str.split(sep): the text between separators, empty pieces kept
RECURSIVE Split(_, _)
Split(s, sep) ==
    IF \A i \in 1..Len(s) : s[i] # sep THEN <<s>>
    ELSE LET i == CHOOSE k \in 1..Len(s) :
                      s[k] = sep /\ \A j \in 1..(k - 1) : s[j] # sep
         IN <<SubSeq(s, 1, i - 1)>> \o Split(SubSeq(s, i + 1, Len(s)), sep)

\* sep.join(parts)
RECURSIVE Join(_, _)
Join(parts, sep) ==
    IF Len(parts) = 0 THEN <<>>
    ELSE IF Len(parts) = 1 THEN parts[1]
    ELSE parts[1] \o <<sep>> \o Join(Tail(parts), sep)

\* binary digits of n, most significant first, no padding
RECURSIVE Bin(_)
Bin(n) == IF n < 2 THEN <<DigitChar(n)>>
          ELSE Bin(n \div 2) \o <<DigitChar(n % 2)>>

\* '{0:09b}'.format(n): zero-padded on the left to FlagBits digits, longer
\* when n needs more digits
Format09b(n) ==
    LET b == Bin(n)
    IN IF Len(b) >= FlagBits THEN b
       ELSE [i \in 1..(FlagBits - Len(b)) |-> "0"] \o b

\* reversed(seq)
Reverse(s) == [i \in 1..Len(s) |-> s[Len(s) + 1 - i]]

\* ------------------------------------------------------ results of a call
None == [kind |-> "return", shape |-> "None", vals |-> <<>>, exc |-> "none"]

Scalar(v) == [kind |-> "return", shape |-> "scalar", vals |-> <<v>>, exc |-> "none"]

List(vs) == [kind |-> "return", shape |-> "list", vals |-> vs, exc |-> "none"]

Raise(e) == [kind |-> "raise", shape |-> "none", vals |-> <<>>, exc |-> e]

\* a returned text (ask, read)
Text(t) == [kind |-> "return", shape |-> "other", vals |-> <<t>>, exc |-> "none"]

Running == [kind |-> "running", shape |-> "none", vals |-> <<>>, exc |-> "none"]

\* the adapter's record of commands keeps the first MaxLog of a call
Record(log, c) == IF Len(log) < MaxLog THEN Append(log, c) ELSE log

\* ------------------------------------------------------------------- state
VARIABLES
    obj,                  \* "none" | "ok" (constructed) | "failed" (__init__ raised)
    is_power, is_energy, resp_settable, wavelength_settable,
    tau_settable, temperature_sens,
    sensor_name, sensor_sn, sensor_cal_msg, sensor_type, sensor_subtype,
    flags_str,            \* self._flags_str
    pc,                   \* "idle" | "zero_poll" | "zero_test": position in set_zero
    start, timeout,       \* set_zero's locals
    now,                  \* time.time(), in units of the 0.1 s sleep
    op,                   \* the call in progress or last made
    sent,                 \* commands the adapter received during that call
    reply,                \* the last reply the adapter gave during that call
    result,               \* what the call returned or raised
    logged                \* levels of the log records the call emitted

flagVars == <<is_power, is_energy, resp_settable, wavelength_settable,
              tau_settable, temperature_sens>>

infoVars == <<sensor_name, sensor_sn, sensor_cal_msg, sensor_type,
              sensor_subtype, flags_str>>

sensorVars == <<flagVars, infoVars>>

zeroVars == <<pc, start, timeout>>

callVars == <<op, sent, reply, result, logged>>

vars == <<obj, sensorVars, zeroVars, now, callVars>>

\* ------------------------------------------------------------- the device
\* SYST:SENSOR:IDN? reply of a sensor head whose flag word is f:
\* name,serial,calibration message,type,subtype,flags
IdnText(f) ==
    Join(<< <<IF f % 2 = 1 THEN "S" ELSE "E">>, <<"7">>, <<"c">>, <<"1">>,
            DecStr((f \div 2) % 2), DecStr(f) >>, ",")

\* IdnText, tabulated by flag word
IdnReplyTable == [f \in 0..MaxFlag |-> IdnText(f)] @@ <<>>

IdnReply(f) == IdnReplyTable[f]

\* sensor heads of the main specification: no capability, energy,
\* photodiode (power, wavelength), all documented flags (371), and a tenth bit
DeviceFlags == {0, 2, 33, 371, MaxFlag}

AllFlags == 0..MaxFlag

\* message texts of SYSTem:ERRor? replies: up to MaxMsgLen characters,
\* commas included
RECURSIVE Texts(_)
Texts(n) == IF n = 0 THEN {<<>>}
            ELSE LET shorter == Texts(n - 1)
                 IN shorter \cup {Append(t, c) : t \in shorter, c \in {"e", ","}}

\* '<code>,<message>'
ErrReplies == {code \o <<",">> \o msg : code \in {<<"0">>, <<"-", "7">>},
                                         msg \in Texts(MaxMsgLen)}

\* replies to a value query: one scalar, or two different ones, comma
\* separated
ValueLists == {<<v>> : v \in Scalars} \cup {<<v, MaxVal - v>> : v \in Scalars}

ValueReplies == {Join([i \in 1..Len(l) |-> DecStr(l[i])], ",") : l \in ValueLists}

\* ------------------------------------------------- the transport (library)
\* Instrument.values(command): the reply split at commas, each piece cast
\* to a number; a piece that is no number stays the text it is
ParseValues(rp) ==
    LET parts == Split(rp, ",")
    IN [i \in 1..Len(parts) |->
           IF IsIntText(parts[i]) THEN ParseInt(parts[i]) ELSE parts[i]]

\* ParseValues, tabulated over the replies the device gives
ValuesTable ==
    [rp \in ValueReplies \cup {IdnReply(f) : f \in DeviceFlags} |->
        ParseValues(rp)] @@ <<>>

Values(rp) == ValuesTable[rp]

\* bytes of one 32-bit float
FloatBytes == 4

\* Instrument.binary_values(command): the reply read as raw 32-bit floats,
\* each value given here by its four bytes; a reply whose size is no
\* multiple of four is refused
BinaryValuesExc(rp) == IF Len(rp) % FloatBytes = 0 THEN "none" ELSE "ValueError"

BinaryValues(rp) ==
    [i \in 1..(Len(rp) \div FloatBytes) |->
        SubSeq(rp, FloatBytes * (i - 1) + 1, FloatBytes * i)]

\* strict_discrete_set(value, values)
StrictDiscreteSet(value, values) == value \in values

\* strict_range(value, (lo, hi)): min(values) <= value <= max(values); the
\* bounds compare only when both are numbers
StrictRangeExc(value, lo, hi) ==
    IF lo.type # "number" \/ hi.type # "number" THEN "TypeError"
    ELSE IF lo.v <= value /\ value <= hi.v THEN "none"
    ELSE "ValueError"

\* ------------------------------------------------------------ check_errors
\* (code, message) = reply.split(','): unpacking needs exactly two pieces
CheckErrorsExc(rp) == IF Len(Split(rp, ",")) = 2 THEN "none" ELSE "ValueError"

\* code != 0 compares the text of the code with the integer 0: never equal
CodeIsNotZero(code) == TRUE

CheckErrorsLog(rp) ==
    IF CheckErrorsExc(rp) = "none" /\ CodeIsNotZero(Split(rp, ",")[1])
    THEN <<"warning">> ELSE <<>>

\* ------------------------------------------------------------------ sensor
\* tuple(map(lambda x: x == '1', bits)), then reversed()
DecodeBitsUnreversed(bits) == [i \in 1..Len(bits) |-> bits[i] = "1"]

DecodeBits(bits) == Reverse([i \in 1..Len(bits) |-> bits[i] = "1"])


\* self._flags after format, map and reversed: the booleans to unpack
SensorFlags(response) ==
    DecodeBits(Format09b(ParseInt(response[Len(response)])))

\* the exception sensor() ends with, "none" when it returns
SensorExc(response) ==
    IF Len(response) < 5 THEN "IndexError"
    ELSE IF ~IsIntText(response[Len(response)]) THEN "ValueError"
    ELSE IF Len(SensorFlags(response)) # FlagBits THEN "ValueError"
    ELSE "none"

\* what sensor() does with a reply: the split reply, how it ends, and the
\* nine booleans unpacked into is_power, is_energy, _d4, _d8, resp_settable,
\* wavelength_settable, tau_settable, _d128, temperature_sens
SensorEffect(rp) ==
    LET response == Split(rp, ",")
        exc == SensorExc(response)
    IN [response |-> response,
        exc |-> exc,
        flags |-> IF exc = "none" THEN SensorFlags(response) ELSE <<>>]

\* SensorEffect of the reply of each sensor head, tabulated by flag word
SensorTable == [f \in 0..MaxFlag |-> SensorEffect(IdnReply(f))] @@ <<>>

\* the attribute assignments of sensor() on the reply of the sensor head
\* with flag word f: each string field as far as the
\* reply has it, the flags only when the unpacking succeeds
SensorAssign(f) ==
    LET response == SensorTable[f].response
        n == Len(response)
    IN /\ sensor_name' = response[1]
       /\ sensor_sn' = IF n >= 2 THEN response[2] ELSE sensor_sn
       /\ sensor_cal_msg' = IF n >= 3 THEN response[3] ELSE sensor_cal_msg
       /\ sensor_type' = IF n >= 4 THEN response[4] ELSE sensor_type
       /\ sensor_subtype' = IF n >= 5 THEN response[5] ELSE sensor_subtype
       /\ flags_str' = IF n >= 5 THEN response[n] ELSE flags_str
       /\ IF SensorTable[f].exc = "none"
          THEN LET flags == SensorTable[f].flags
               IN /\ is_power' = flags[1]
                  /\ is_energy' = flags[2]
                  /\ resp_settable' = flags[5]
                  /\ wavelength_settable' = flags[6]
                  /\ tau_settable' = flags[7]
                  /\ temperature_sens' = flags[9]
          ELSE UNCHANGED flagVars

\* ---------------------------------------------------------------- __init__
\* properties of the class that define no setter
ReadOnlyProperties == {"power", "current", "voltage", "energy", "frequency",
                       "power_density", "energy_density", "resistance",
                       "temperature"}

\* self.<name> = value on the driver
SetAttrExc(name) == IF name \in ReadOnlyProperties THEN "AttributeError" ELSE "none"

\* self.power = self.Power(self), then current, then voltage
AttachExc ==
    IF SetAttrExc("power") # "none" THEN SetAttrExc("power")
    ELSE IF SetAttrExc("current") # "none" THEN SetAttrExc("current")
    ELSE SetAttrExc("voltage")

ConstructOver(errSet, flagSet) ==
    /\ obj \in {"none", "failed"}
    /\ pc = "idle"
    /\ \E er \in errSet, f \in flagSet :
         LET idn == IdnReply(f)
         IN /\ op' = "construct"
            /\ IF CheckErrorsExc(er) # "none"
               THEN /\ sent' = <<"SYSTem:ERRor?">>
                    /\ reply' = er
                    /\ logged' = <<>>
                    /\ result' = Raise(CheckErrorsExc(er))
                    /\ obj' = "failed"
                    /\ UNCHANGED sensorVars
               ELSE /\ sent' = <<"SYSTem:ERRor?", "SYST:SENSOR:IDN?">>
                    /\ reply' = idn
                    /\ logged' = CheckErrorsLog(er)
                    /\ SensorAssign(f)
                    /\ IF SensorTable[f].exc # "none"
                       THEN result' = Raise(SensorTable[f].exc) /\ obj' = "failed"
                       ELSE IF is_power' /\ AttachExc # "none"
                       THEN result' = Raise(AttachExc) /\ obj' = "failed"
                       ELSE result' = None /\ obj' = "ok"
    /\ UNCHANGED <<zeroVars, now>>

Construct == ConstructOver(ErrReplies, DeviceFlags)

\* ------------------------------------------- calls on a constructed driver
\* a call that runs to its end in one step and leaves the driver's
\* attributes alone
Call(name, cmds, rp, res, logs) ==
    /\ obj = "ok"
    /\ pc = "idle"
    /\ op' = name
    /\ sent' = cmds
    /\ reply' = rp
    /\ result' = res
    /\ logged' = logs
    /\ UNCHANGED <<obj, sensorVars, zeroVars, now>>

check_errors_refreshing ==
    /\ obj = "ok"
    /\ pc = "idle"
    /\ \E er \in ErrReplies, f \in DeviceFlags :
          /\ op' = "check_errors"
          /\ sent' = <<"SYSTem:ERRor?", "SYST:SENSOR:IDN?">>
          /\ reply' = IdnReply(f)
          /\ result' = None
          /\ logged' = CheckErrorsLog(er)
          /\ SensorAssign(f)
    /\ UNCHANGED <<obj, zeroVars, now>>

check_errors ==
    \E er \in ErrReplies :
        Call("check_errors", <<"SYSTem:ERRor?">>, er,
             IF CheckErrorsExc(er) = "none" THEN None
             ELSE Raise(CheckErrorsExc(er)),
             CheckErrorsLog(er))

SensorOver(flagSet) ==
    /\ obj = "ok"
    /\ pc = "idle"
    /\ \E f \in flagSet :
         LET idn == IdnReply(f)
         IN /\ op' = "sensor"
            /\ sent' = <<"SYST:SENSOR:IDN?">>
            /\ reply' = idn
            /\ logged' = <<>>
            /\ SensorAssign(f)
            /\ result' = IF SensorTable[f].exc = "none" THEN None
                         ELSE Raise(SensorTable[f].exc)
    /\ UNCHANGED <<obj, zeroVars, now>>

sensor == SensorOver(DeviceFlags)

\* "%g" % v and "%d" % v of a small non-negative whole number
FormatNumber(v) == ToString(v)

\* Instrument.measurement(get_command, ...): the parsed reply, a single
\* value as a scalar
MeasurementGet(name, cmd) ==
    \E rp \in ValueReplies :
        Call(name, <<cmd>>, rp,
             IF Len(Values(rp)) = 1 THEN Scalar(Values(rp)[1]) ELSE List(Values(rp)),
             <<>>)

\* Instrument.control(get_command, set_command, ...), written
ControlSet(name, cmd) ==
    \E v \in Scalars :
        Call(name, <<cmd \o FormatNumber(v)>>, <<>>, None, <<>>)

average_get == MeasurementGet("average_get", "SENS:AVERage?")

average_set == ControlSet("average_set", "SENS:AVERage ")

zero_offset == MeasurementGet("zero_offset", "SENS:CORR:COLLect:ZERO:MAGnitude?")

beamdiameter_get == MeasurementGet("beamdiameter_get", "SENS:CORR:BEAMdiameter?")

beamdiameter_set == ControlSet("beamdiameter_set", "SENS:CORR:BEAMdiameter ")

beamdiameter_min == MeasurementGet("beamdiameter_min", "SENS:CORR:BEAMdiameter? MIN")

beamdiameter_max == MeasurementGet("beamdiameter_max", "SENS:CORR:BEAMdiameter? MAX")

wavelength_min == MeasurementGet("wavelength_min", "SENS:CORR:WAV? MIN")

wavelength_max == MeasurementGet("wavelength_max", "SENS:CORR:WAV? MAX")

\* the getter evaluates self.values(...)[0] and returns nothing
wavelength_get ==
    \E rp \in ValueReplies :
        Call("wavelength_get", <<"SENSE:CORR:WAV?">>, rp, None, <<>>)

\* names bound when the setter's body starts: its parameters
WavelengthSetterBound == {"self", "val"}

\* the setter's first statement reads its local `wavelength` as the
\* argument of strict_range before anything is assigned to it; past that,
\* the flag decides
WavelengthSetExc ==
    IF "wavelength" \notin WavelengthSetterBound THEN "UnboundLocalError"
    ELSE IF wavelength_settable THEN "none"
    ELSE "Exception"

wavelength_set ==
    \E val \in Scalars :
        IF WavelengthSetExc # "none"
        THEN Call("wavelength_set", <<>>, <<>>, Raise(WavelengthSetExc), <<>>)
        ELSE Call("wavelength_set", <<"SENSE:CORR:WAV " \o FormatNumber(val)>>,
                  <<>>, None, <<>>)

\* a measurement property guarded by a capability flag that raises when the
\* flag is false
GatedGet(name, flag, cmd) ==
    IF flag
    THEN \E rp \in ValueReplies :
             Call(name, <<cmd>>, rp, Scalar(Values(rp)[1]), <<>>)
    ELSE Call(name, <<>>, <<>>, Raise("Exception"), <<>>)

\* a measurement property whose guard has no else branch
GatedGetOrNone(name, flag, cmd) ==
    IF flag
    THEN \E rp \in ValueReplies :
             Call(name, <<cmd>>, rp, Scalar(Values(rp)[1]), <<>>)
    ELSE Call(name, <<>>, <<>>, None, <<>>)

power == GatedGet("power", is_power, "MEAS:POWer?")

current == GatedGet("current", is_power, "MEAS:CURRent?")

voltage == GatedGet("voltage", is_power, "MEAS:VOLTage?")

energy_unguarded ==
    \E rp \in ValueReplies :
        Call("energy", <<"MEAS:ENERgy?">>, rp, Scalar(Values(rp)[1]), <<>>)

energy == GatedGet("energy", is_energy, "MEAS:ENERgy?")

frequency == GatedGet("frequency", is_energy, "MEAS:FREQuency?")

power_density == GatedGet("power_density", is_power, "MEAS:PDENsity?")

energy_density == GatedGet("energy_density", is_energy, "MEAS:EDENsity?")

resistance == GatedGetOrNone("resistance", temperature_sens, "MEAS:RESistance?")

temperature == GatedGetOrNone("temperature", temperature_sens, "MEAS:TEMPerature?")

\* self.wavelength = wavelength; return self.power
measure_power ==
    \E w \in Scalars :
        IF WavelengthSetExc # "none"
        THEN Call("measure_power", <<>>, <<>>, Raise(WavelengthSetExc), <<>>)
        ELSE IF is_power
        THEN \E rp \in ValueReplies :
                 Call("measure_power",
                      <<"SENSE:CORR:WAV " \o FormatNumber(w), "MEAS:POWer?">>,
                      rp, Scalar(Values(rp)[1]), <<>>)
        ELSE Call("measure_power", <<"SENSE:CORR:WAV " \o FormatNumber(w)>>,
                  <<>>, Raise("Exception"), <<>>)

\* ---------------------------------------------------------------- set_zero
\* values(...)[0] == 1: equality with the literal
Equals1(v) == v = 1

\* whether a value values() hands back is an int object: values() casts
\* every piece of the reply with float, so none is
IsIntObject(v) == FALSE

\* values(...)[0] is 1: identity with the object of the int literal 1,
\* which only an int object of value 1 has; the float 1.0 has not
Is1(v) == IsIntObject(v) /\ v = 1

set_zero_begin ==
    /\ obj = "ok"
    /\ pc = "idle"
    /\ \E t \in 0..MaxTimeout :
          /\ now + t < MaxTime
          /\ timeout' = t
    /\ op' = "set_zero"
    /\ sent' = <<"SENS:CORR:COLLect:ZERO:INITiate">>
    /\ reply' = <<>>
    /\ result' = Running
    /\ logged' = <<>>
    /\ start' = now
    /\ pc' = "zero_poll"
    /\ UNCHANGED <<obj, sensorVars, now>>

\* the loop's query: the command goes out and the call waits for the reply
set_zero_poll ==
    /\ pc = "zero_poll"
    /\ \E rp \in ValueReplies : reply' = rp
    /\ sent' = Record(sent, "SENS:CORR:COLLect:ZERO:STATe?")
    /\ pc' = "zero_test"
    /\ UNCHANGED <<obj, sensorVars, start, timeout, now, op, result, logged>>

\* the loop's test on the reply and, when it holds, the body: the clock is
\* read, past the timeout ABORt is sent and logged, otherwise the call
\* sleeps; then back to the query. When the test fails set_zero returns
set_zero_test ==
    /\ pc = "zero_test"
    /\ IF Is1(Values(reply)[1])
       THEN /\ pc' = "zero_poll"
            /\ UNCHANGED result
            /\ IF now > start + timeout
               THEN /\ sent' = Record(sent, "SENS:CORR:COLLect:ZERO:ABORt")
                    /\ logged' = Record(logged, "info")
                    /\ UNCHANGED now
               ELSE /\ now < MaxTime
                    /\ now' = now + 1
                    /\ UNCHANGED <<sent, logged>>
       ELSE /\ pc' = "idle"
            /\ result' = None
            /\ UNCHANGED <<now, sent, logged>>
    /\ UNCHANGED <<obj, sensorVars, start, timeout, op, reply>>

\* wall-clock time passes
Tick ==
    /\ now < MaxTime
    /\ now' = now + 1
    /\ UNCHANGED <<obj, sensorVars, zeroVars, callVars>>

\* ------------------------------------------------- DC_sensor setting objects
Prefixes == {"POWer", "CURRent", "VOLTage"}

\* DC_sensor._cmd
Cmd(prefix, command) == "SENSe:" \o prefix \o ":" \o command

\* range_min, range_max, reference_min and reference_max are assigned in
\* DC_sensor.__init__ to the instance: reading one yields the property
\* object itself
InstanceProperty == [type |-> "property", v |-> 0]

TextArgs == {"min", "def", "x"}

\* str.upper
Upper(s) == CASE s = "min" -> "MIN"
              [] s = "def" -> "DEF"
              [] s = "x" -> "X"

DC_range_get ==
    \E p \in Prefixes, rp \in ValueReplies :
        Call("range_get", <<Cmd(p, "RANGe?")>>, rp, None, <<>>)

DC_reference_get ==
    \E p \in Prefixes, rp \in ValueReplies :
        Call("reference_get", <<Cmd(p, "REFerence?")>>, rp, None, <<>>)

\* a setter of DC_sensor: a text goes through upper() and
\* strict_discrete_set, a number through strict_range
DC_set(name, command, allowed) ==
    \E p \in Prefixes :
        \/ \E s \in TextArgs :
              IF StrictDiscreteSet(Upper(s), allowed)
              THEN Call(name, <<Cmd(p, command \o Upper(s))>>, <<>>, None, <<>>)
              ELSE Call(name, <<>>, <<>>, Raise("ValueError"), <<>>)
        \/ \E v \in Scalars :
              LET exc == StrictRangeExc(v, InstanceProperty, InstanceProperty)
              IN IF exc # "none"
                 THEN Call(name, <<>>, <<>>, Raise(exc), <<>>)
                 ELSE Call(name, <<Cmd(p, command \o FormatNumber(v))>>,
                           <<>>, None, <<>>)

DC_range_set == DC_set("range_set", "RANGe ", {"MIN", "MAX", "min", "max"})

DC_reference_set ==
    DC_set("reference_set", "REFerence ", {"MIN", "MAX", "DEF", "DEFAULT"})

\* ------------------------------------- Instrument_Sub pass-through methods
\* commands a caller hands to write, ask, values and binary_values
SubCommands == {"X", "SYST:SENSOR:IDN?", "MEAS:POWer?"}

\* the device's reply to a command a caller chose
RepliesTo(cmd) == IF cmd = "SYST:SENSOR:IDN?"
                  THEN {IdnReply(f) : f \in DeviceFlags}
                  ELSE ValueReplies

\* Instrument_Sub.write: self._instrument.write(command)
Sub_write ==
    \E cmd \in SubCommands :
        Call("sub_write", <<cmd>>, <<>>, None, <<>>)

\* Instrument_Sub.read: self._instrument.read(), no command sent
Sub_read ==
    \E rp \in ValueReplies :
        Call("sub_read", <<>>, rp, Text(rp), <<>>)

\* Instrument_Sub.ask: self._instrument.ask(command), the reply as text
Sub_ask ==
    \E cmd \in SubCommands :
        \E rp \in RepliesTo(cmd) :
            Call("sub_ask", <<cmd>>, rp, Text(rp), <<>>)

\* Instrument_Sub.values: self._instrument.values(command), the parsed list
Sub_values ==
    \E cmd \in SubCommands :
        \E rp \in RepliesTo(cmd) :
            Call("sub_values", <<cmd>>, rp, List(Values(rp)), <<>>)

\* Instrument_Sub.binary_values: self._instrument.binary_values(command)
Sub_binary_values ==
    \E cmd \in SubCommands :
        \E rp \in RepliesTo(cmd) :
            Call("sub_binary_values", <<cmd>>, rp,
                 IF BinaryValuesExc(rp) = "none" THEN List(BinaryValues(rp))
                 ELSE Raise(BinaryValuesExc(rp)),
                 <<>>)

\* Instrument_Sub.check_errors: self._instrument.check_errors()
Sub_check_errors ==
    \E er \in ErrReplies :
        Call("sub_check_errors", <<"SYSTem:ERRor?">>, er,
             IF CheckErrorsExc(er) = "none" THEN None
             ELSE Raise(CheckErrorsExc(er)),
             CheckErrorsLog(er))

\* ------------------------------------------------------- the specifications
NoCall == [kind |-> "none", shape |-> "none", vals |-> <<>>, exc |-> "none"]

Init ==
    /\ obj = "none"
    /\ is_power = FALSE /\ is_energy = FALSE /\ resp_settable = FALSE
    /\ wavelength_settable = FALSE /\ tau_settable = FALSE
    /\ temperature_sens = FALSE
    /\ sensor_name = <<>> /\ sensor_sn = <<>> /\ sensor_cal_msg = <<>>
    /\ sensor_type = <<>> /\ sensor_subtype = <<>> /\ flags_str = <<>>
    /\ pc = "idle" /\ start = 0 /\ timeout = 0 /\ now = 0
    /\ op = "none" /\ sent = <<>> /\ reply = <<>> /\ result = NoCall
    /\ logged = <<>>

Next ==
    \/ Construct
    \/ check_errors
    \/ sensor
    \/ average_get
    \/ average_set
    \/ zero_offset
    \/ beamdiameter_get
    \/ beamdiameter_set
    \/ beamdiameter_min
    \/ beamdiameter_max
    \/ wavelength_min
    \/ wavelength_max
    \/ wavelength_get
    \/ wavelength_set
    \/ power
    \/ current
    \/ voltage
    \/ energy
    \/ frequency
    \/ power_density
    \/ energy_density
    \/ resistance
    \/ temperature
    \/ measure_power
    \/ set_zero_begin
    \/ set_zero_poll
    \/ set_zero_test
    \/ DC_range_get
    \/ DC_range_set
    \/ DC_reference_get
    \/ DC_reference_set
    \/ Sub_write
    \/ Sub_read
    \/ Sub_ask
    \/ Sub_values
    \/ Sub_binary_values
    \/ Sub_check_errors
    \/ Tick

Spec == Init /\ [][Next]_vars

\* the interpreter keeps running set_zero's loop, and the clock advances
SpecLive ==
    /\ Init /\ [][Next]_vars
    /\ WF_vars(set_zero_poll)
    /\ WF_vars(set_zero_test)
    /\ WF_vars(Tick)

\* sensor() over every flag word: construction and re-reading the sensor
ConstructAny == ConstructOver({<<"0", ",", "e">>}, AllFlags)

SensorAny == SensorOver(AllFlags)

NextSensor == ConstructAny \/ SensorAny

SpecSensor == Init /\ [][NextSensor]_vars

\* ------------------------------------------------------------ the claims
\* bit i of the flag word f, by arithmetic
Bit(f, i) == (f \div (2 ^ i)) % 2 = 1

\* the first number of a comma-separated reply
FirstValue(rp) == ParseInt(Split(rp, ",")[1])

Count(log, c) == Cardinality({i \in 1..Len(log) : log[i] = c})

\* C1: whenever sensor() has decoded a flag word f in 0..511, is_power is
\* bit 0 of f, is_energy bit 1, resp_settable bit 4, wavelength_settable
\* bit 5, tau_settable bit 6 and temperature_sens bit 8; bits 2, 3 and 7
\* appear in none of them.
C1_FlagBits ==
    (IsIntText(flags_str) /\ ParseInt(flags_str) < 2 ^ FlagBits) =>
        LET f == ParseInt(flags_str)
        IN /\ is_power = Bit(f, 0)
           /\ is_energy = Bit(f, 1)
           /\ resp_settable = Bit(f, 4)
           /\ wavelength_settable = Bit(f, 5)
           /\ tau_settable = Bit(f, 6)
           /\ temperature_sens = Bit(f, 8)

\* C1 witness: sensor() has decoded 141 = 128 + 8 + 4 + 1, whose bits 2, 3
\* and 7 are set, and only is_power is true.
C1_Witness ==
    /\ op = "sensor" /\ result = None
    /\ flags_str = DecStr(141)
    /\ is_power /\ ~is_energy /\ ~resp_settable /\ ~wavelength_settable
    /\ ~tau_settable /\ ~temperature_sens

EnergyCommand(name) == CASE name = "energy" -> "MEAS:ENERgy?"
                         [] name = "frequency" -> "MEAS:FREQuency?"
                         [] name = "energy_density" -> "MEAS:EDENsity?"

\* C2: after reading energy, frequency or energy_density, either is_energy
\* is false, the read raised and no command was sent, or is_energy is true,
\* exactly the property's query was sent and the read returned the first
\* value of the reply.
C2_EnergyGate ==
    op \in {"energy", "frequency", "energy_density"} =>
        IF is_energy
        THEN /\ sent = <<EnergyCommand(op)>>
             /\ result = Scalar(FirstValue(reply))
        ELSE /\ result.kind = "raise"
             /\ sent = <<>>

\* C2 witness: energy was read on a driver that is no energy sensor, and
\* the read raised.
C2_Witness ==
    /\ obj = "ok" /\ op = "energy" /\ ~is_energy /\ result.kind = "raise"

\* C3: measure_power on a power sensor with settable wavelength sends the
\* wavelength-set command, then MEAS:POWer?, and returns the power parsed
\* from the reply.
C3_MeasurePower ==
    (op = "measure_power" /\ is_power /\ wavelength_settable) =>
        /\ result.kind = "return"
        /\ Len(sent) = 2
        /\ \E w \in Scalars : sent[1] = "SENSE:CORR:WAV " \o FormatNumber(w)
        /\ sent[2] = "MEAS:POWer?"
        /\ result = Scalar(FirstValue(reply))

\* C4: once the clock has passed start + timeout while set_zero runs,
\* set_zero eventually returns.
C4_SetZeroReturns ==
    []((pc # "idle" /\ now > start + timeout) => <>(pc = "idle"))

\* C4: set_zero is still polling and the clock has passed start + timeout
C4_Witness ==
    op = "set_zero" /\ pc = "zero_test" /\ now > start + timeout

\* C5: during and after set_zero the first command sent is INITiate, the
\* call does not raise, ABORt is sent at most once, and set_zero does not
\* return without an ABORt while the device still reports state 1.
C5_SetZeroAbort ==
    op = "set_zero" =>
        /\ sent[1] = "SENS:CORR:COLLect:ZERO:INITiate"
        /\ result.kind # "raise"
        /\ Count(sent, "SENS:CORR:COLLect:ZERO:ABORt") <= 1
        /\ (pc = "idle" /\ FirstValue(reply) = 1) =>
               Count(sent, "SENS:CORR:COLLect:ZERO:ABORt") = 1

\* C6: check_errors returns normally whatever '<code>,<message>' the device
\* replies.
C6_CheckErrorsReturns ==
    op \in {"check_errors", "sub_check_errors"} => result.kind = "return"

\* C7: a read of power, current, voltage or power_density with is_power
\* false, a read of resistance or temperature with temperature_sens false,
\* and a write of wavelength with wavelength_settable false each raise and
\* send nothing.
C7_GatesRaise ==
    /\ (op \in {"power", "current", "voltage", "power_density"} /\ ~is_power) =>
           (result.kind = "raise" /\ sent = <<>>)
    /\ (op \in {"resistance", "temperature"} /\ ~temperature_sens) =>
           (result.kind = "raise" /\ sent = <<>>)
    /\ (op = "wavelength_set" /\ ~wavelength_settable) =>
           (result.kind = "raise" /\ sent = <<>>)

PropertyReads ==
    {"average_get", "zero_offset", "beamdiameter_get", "beamdiameter_min",
     "beamdiameter_max", "wavelength_min", "wavelength_max", "wavelength_get",
     "power", "current", "voltage", "energy", "frequency", "power_density",
     "energy_density", "resistance", "temperature", "range_get",
     "reference_get"}

PropertyWrites ==
    {"average_set", "beamdiameter_set", "wavelength_set", "range_set",
     "reference_set"}

\* C8: a step of a property read, a property write, set_zero, measure_power
\* or check_errors leaves the six flags and the sensor's string fields as
\* they were, and the commands of that call do not include SYST:SENSOR:IDN?.
C8_FlagsFixed ==
    [][op' \in PropertyReads \cup PropertyWrites \cup
              {"set_zero", "measure_power", "check_errors", "sub_check_errors"} =>
          /\ sensorVars' = sensorVars
          /\ \A i \in 1..Len(sent') : sent'[i] # "SYST:SENSOR:IDN?"]_vars

\* C8 witness: on a constructed energy sensor a zero adjustment has run to
\* its end and a command was sent, with the flags as construction set them.
C8_Witness ==
    /\ obj = "ok" /\ op = "set_zero" /\ pc = "idle"
    /\ flags_str = DecStr(2) /\ is_energy /\ ~is_power

\* C9: a property read or write that returns has sent exactly one command,
\* and a read has returned the value parsed from the reply.
C9_OneCommand ==
    (op \in PropertyReads \cup PropertyWrites /\ result.kind = "return") =>
        /\ Len(sent) = 1
        /\ op \in PropertyReads =>
               /\ result.shape \in {"scalar", "list"}
               /\ result.vals[1] = FirstValue(reply)

\* C10: construction on a well-formed error reply and a flag word in 0..511
\* returns, having sent SYSTem:ERRor? and then SYST:SENSOR:IDN?, once each.
C10_ConstructReturns ==
    (op = "construct" /\ Len(sent) = 2 /\ IsIntText(flags_str)
       /\ ParseInt(flags_str) < 2 ^ FlagBits) =>
        /\ result = None
        /\ obj = "ok"
        /\ sent = <<"SYSTem:ERRor?", "SYST:SENSOR:IDN?">>

====
